---- MODULE Spec2Model ----
(***************************************************************************)
(* packet-groper: local subnet discovery (discover_subnet) and the         *)
(* bounded-concurrency host scan (scan_network) of                         *)
(* src/packet_groper/scanner.py, with ScanResult.report.                   *)
(*                                                                         *)
(* Addresses are the integer values of IPv4 addresses.  Time is counted    *)
(* in ticks of half a second: the default probe timeout (0.5 s) and the    *)
(* grace added for the hard deadline (0.5 s) are one tick each.            *)
(***************************************************************************)
EXTENDS Integers, Sequences, FiniteSets, TLC

\* ---------------------------------------------------------------- bounds
\* Largest concurrency limit passed to scan_network.
MaxWorkers == 2
\* Largest probe timeout passed to scan_network, in ticks.
MaxTimeout == 1

\* ----------------------------------------------------- program constants
\* scan_network rejects prefix lengths below this one.
MinPrefixLen == 22
\* scan_network(max_workers=100): the default concurrency limit.
DefaultMaxWorkers == 100
\* subprocess.run(timeout=timeout + 0.5): the grace of the hard deadline.
Grace == 1
\* scan_network(timeout=0.5): the default probe timeout, in ticks.
DefaultTimeout == 1
\* cmd_scan skips the scan for prefix lengths below this one.
CliMinPrefixLen == 22
\* Python's None, for values that are otherwise records or sequences.
None == << >>

\* discover_subnet(interface=None), among interface names.
NoInterface == "None"

\* ------------------------------------------------------------ addresses
Pow2(n) == 2 ^ n

\* str(IPv4Address): the dotted quad, as its four octets.
FormatIP(n) ==
    << n \div 16777216, (n \div 65536) % 256, (n \div 256) % 256, n % 256 >>

\* IPv4Address(text): the integer value of a dotted quad.
ParseIP(q) == ((q[1] * 256 + q[2]) * 256 + q[3]) * 256 + q[4]

\* IPv4Network.num_addresses
NumAddresses(subnet) == Pow2(32 - subnet.prefixlen)

\* IPv4Network.broadcast_address
BroadcastAddress(subnet) == subnet.addr + NumAddresses(subnet) - 1

\* list(subnet.hosts()): ipaddress yields network+1 .. broadcast-1, except
\* that a /31 yields both of its addresses and a /32 its single address.
Hosts(subnet) ==
    IF subnet.prefixlen = 31
    THEN << subnet.addr, BroadcastAddress(subnet) >>
    ELSE IF subnet.prefixlen = 32
    THEN << subnet.addr >>
    ELSE [i \in 1..(NumAddresses(subnet) - 2) |-> subnet.addr + i]

Range(s) == { s[i] : i \in 1..Len(s) }

NoDuplicates(s) == \A i, j \in 1..Len(s) : i # j => s[i] # s[j]

\* ------------------------------------------------------------- the inputs
BaseAddr == ParseIP(<< 10, 0, 0, 0 >>)

\* Host bits of the subnets that are scanned: a /30 (two usable hosts), a
\* /31 and a /32.  A /29 has six hosts, whose interleavings are beyond what
\* an exhaustive search covers.
HostBits == {0, 1, 2}

\* Subnets small enough to scan: every aligned subnet with that many host
\* bits among the four addresses from BaseAddr on.
ScannableSubnets ==
    UNION { { [addr |-> BaseAddr + k * Pow2(h), prefixlen |-> 32 - h] :
                k \in 0..(Pow2(2 - h) - 1) } : h \in HostBits }

\* Subnets larger than the policy allows.
OversizeSubnets ==
    { [addr |-> BaseAddr, prefixlen |-> p] : p \in {8, 16, 21} }

Subnets == ScannableSubnets \cup OversizeSubnets

Timeouts == 1..MaxTimeout

WorkerLimits == (1..MaxWorkers) \cup {DefaultMaxWorkers}

Platforms == {"Darwin", "Linux"}

\* ------------------------------------------------------------------ state
VARIABLES
    entry,          \* the function the caller invoked
    pc,             \* position of the calling thread
    subnet,         \* scan_network argument
    timeout,        \* scan_network argument, in ticks
    max_workers,    \* scan_network argument
    platform,       \* platform.system()
    result,         \* the ScanResult under construction, or None
    future_to_ip,   \* the submitted probes, in submission order
    future,         \* per address: state of its Future
    check,          \* per address: what the external check of its probe did
    elapsed,        \* per address: ticks its running probe has been waiting
    work_queue,     \* ThreadPoolExecutor._work_queue
    num_threads,    \* len(ThreadPoolExecutor._threads)
    idle_semaphore, \* ThreadPoolExecutor._idle_semaphore
    releasing,      \* workers between set_result and _idle_semaphore.release
    yielded,        \* futures as_completed has handed to the loop
    clock,          \* ticks elapsed since scan_network was called
    error,          \* the NetworkError raised, or None
    returned,       \* the value returned to the caller, or None
    interface,      \* discover_subnet argument
    interfaces,     \* get_interfaces() as seen by discover_subnet
    local_ip,       \* _get_local_ip() as seen by discover_subnet
    netmask,        \* _get_netmask() as seen by discover_subnet
    lookup,         \* what the environment did during discovery
    args_subnet,    \* args.subnet of the scan subcommand, or None
    cli_pc          \* position of cmd_scan

scanVars == << subnet, timeout, max_workers, platform, result, future_to_ip,
               future, check, elapsed, work_queue, num_threads,
               idle_semaphore, releasing, yielded, clock >>

discoverVars == << interface, interfaces, local_ip, netmask, lookup >>

cliVars == << args_subnet, cli_pc >>

vars == << entry, pc, error, returned, scanVars, discoverVars, cliVars >>

\* Every address a modelled scan can touch.
Addresses == UNION { Range(Hosts(s)) : s \in ScannableSubnets }

\* ------------------------------------------------------------------ report
\* Insert x into the ascending sequence s, as sorted() orders addresses:
\* by their integer value.
RECURSIVE Insert(_, _)
Insert(x, s) ==
    IF s = << >> THEN << x >>
    ELSE IF x <= Head(s) THEN << x >> \o s
    ELSE << Head(s) >> \o Insert(x, Tail(s))

\* Sorted that leaves the list in completion order.
Unsorted(s) == s

\* sorted(self.alive)
RECURSIVE Sorted(_)
Sorted(s) == IF s = << >> THEN << >> ELSE Insert(Head(s), Sorted(Tail(s)))

\* ScanResult.report(): the subnet line, the three counts, and one line per
\* alive host, in sorted order, each the dotted quad of the address.
Report(res) ==
    [subnet  |-> << FormatIP(res.subnet.addr), res.subnet.prefixlen >>,
     scanned |-> Len(res.hosts_scanned),
     alive   |-> Len(res.alive),
     dead    |-> Len(res.dead),
     hosts   |-> [i \in 1..Len(res.alive) |-> FormatIP(Sorted(res.alive)[i])]]

\* ------------------------------------------------------------ NetworkError
NetworkError(code, message) == [code |-> code, message |-> message]

\* ---------------------------------------------------------------- futures
FinishedStates == {"True", "False", "exception"}

Finished(ip) == future[ip] \in FinishedStates

Running == { ip \in Addresses : future[ip] = "RUNNING" }

\* Outcomes of the external check of one probe.
CheckOutcomes ==
    {"exit_zero", "exit_nonzero", "TimeoutExpired", "launch_failure",
     "task_raised"}

\* HardDeadline with the grace counted twice.
HardDeadlineLate(t) == t + Grace + Grace

\* The hard deadline of the check process, in ticks.
HardDeadline(t) == t + Grace

\* The timeout budget handed to the check itself (-W), in ticks: whole
\* milliseconds on Darwin, whole seconds elsewhere.
CheckBudget(system, t) ==
    IF system = "Darwin" THEN (t * 500) \div 500 ELSE 2 * (t \div 2)

\* What the probe task leaves in its Future: _ping_host turns a zero
\* return code into True, any other return code, TimeoutExpired and any
\* other exception into False; "task_raised" is an exception that escapes
\* the probe task and is stored in the Future by the worker.
PingHost(outcome) ==
    CASE outcome = "exit_zero"      -> "True"
      [] outcome = "exit_nonzero"   -> "False"
      [] outcome = "TimeoutExpired" -> "False"
      [] outcome = "launch_failure" -> "False"
      [] outcome = "task_raised"    -> "exception"

\* Classify with the test of future.result() negated.
ClassifyInverted(f) ==
    CASE f = "True"      -> "dead"
      [] f = "False"     -> "alive"
      [] f = "exception" -> "dead"

\* Classify with an except branch that files nothing.
ClassifySwallowsErrors(f) ==
    CASE f = "True"      -> "alive"
      [] f = "False"     -> "dead"
      [] f = "exception" -> "unfiled"

\* The body of the as_completed loop: where a resolved future's host goes.
Classify(f) ==
    CASE f = "True"      -> "alive"
      [] f = "False"     -> "dead"
      [] f = "exception" -> "dead"

\* PoolSize with one worker per host, whatever the limit.
PoolSizeOfHosts(limit, hosts) == Len(hosts)

\* The max_workers the pool is built with.
PoolSize(limit, hosts) == limit

\* Unsupported with the threshold one too low.
UnsupportedBelow21(s) == s.prefixlen < MinPrefixLen - 1

\* The policy check at the head of scan_network.
Unsupported(s) == s.prefixlen < MinPrefixLen

\* ------------------------------------------------------------ discovery
\* Dotted-quad text of the addresses the local interface may carry.
LocalIPs == { << 10, 0, 0, 1 >>, << 10, 0, 0, 5 >>, << 10, 0, 3, 77 >> }

\* What reading the routing table, or the socket fallback, can come to.
RouteOutcomes ==
    {"default_route", "two_default_routes", "no_default_route",
     "no_route_file_socket_ok", "no_route_file_socket_error"}

\* get_interfaces(): the interfaces of the default-route lines of
\* /proc/net/route; without that file, "default" if the socket connects.
GetInterfaces(env) ==
    CASE env = "default_route"              -> << "eth0" >>
      [] env = "two_default_routes"         -> << "eth0", "wlan0" >>
      [] env = "no_default_route"           -> << >>
      [] env = "no_route_file_socket_ok"    -> << "default" >>
      [] env = "no_route_file_socket_error" -> << >>

\* The fallback of _get_netmask.
DefaultNetmask == << 255, 255, 255, 0 >>

\* Netmasks the configuration utility may print, dotted or as hex digits.
DottedMasks == { << 255, 255, 255, 252 >>, << 255, 255, 255, 0 >>,
                 << 255, 255, 252, 0 >>, << 255, 255, 0, 0 >> }

HexMasks == { << 15, 15, 15, 15, 15, 15, 0, 0 >>,
              << 15, 15, 15, 15, 15, 15, 15, 8 >> }

\* What the netmask lookup can meet: the utility failing, the second local
\* IP lookup failing, the IP (or a netmask near it) missing from the output,
\* or a netmask found in dotted or hex form.
NetmaskOutcomes ==
    { [kind |-> k] : k \in {"ifconfig_failed", "no_local_ip", "not_listed"} }
    \cup { [kind |-> "dotted", mask |-> m] : m \in DottedMasks }
    \cup { [kind |-> "hex", digits |-> h] : h \in HexMasks }

\* socket.inet_ntoa(struct.pack(">I", int(mask, 16))) of eight hex digits.
HexToDotted(h) == [i \in 1..4 |-> 16 * h[2 * i - 1] + h[2 * i]]

\* GetNetmask without the fallback when no netmask is listed.
GetNetmaskNoFallback(env) ==
    CASE env.kind = "ifconfig_failed" -> DefaultNetmask
      [] env.kind = "no_local_ip"     -> None
      [] env.kind = "not_listed"      -> None
      [] env.kind = "dotted"          -> env.mask
      [] env.kind = "hex"             -> HexToDotted(env.digits)

\* _get_netmask(): the utility runs first (any exception gives the
\* fallback), then the local IP is looked up again (None gives None), then
\* the output is searched; nothing found gives the fallback.
GetNetmask(env) ==
    CASE env.kind = "ifconfig_failed" -> DefaultNetmask
      [] env.kind = "no_local_ip"     -> None
      [] env.kind = "not_listed"      -> DefaultNetmask
      [] env.kind = "dotted"          -> env.mask
      [] env.kind = "hex"             -> HexToDotted(env.digits)

\* Number of one bits of a netmask octet.
OctetBits(m) ==
    CASE m = 0 -> 0 [] m = 128 -> 1 [] m = 192 -> 2 [] m = 224 -> 3
      [] m = 240 -> 4 [] m = 248 -> 5 [] m = 252 -> 6 [] m = 254 -> 7
      [] m = 255 -> 8

\* IPv4Network(f"{ip}/{mask}", strict=False): host bits cleared.
MakeNetwork(ip, mask) ==
    [addr |-> ParseIP([i \in 1..4 |-> ip[i] - (ip[i] % (256 - mask[i]))]),
     prefixlen |-> OctetBits(mask[1]) + OctetBits(mask[2])
                   + OctetBits(mask[3]) + OctetBits(mask[4])]

\* ------------------------------------------------------------------- Init
NoLookup == [route |-> "unused", ifconfig |-> "unused"]

ScanIdle ==
    /\ subnet = None /\ timeout = 0 /\ max_workers = 0 /\ platform = "unused"
    /\ result = None /\ future_to_ip = << >>
    /\ future = [ip \in Addresses |-> "unsubmitted"]
    /\ check = [ip \in Addresses |-> "unresolved"]
    /\ elapsed = [ip \in Addresses |-> 0]
    /\ work_queue = << >> /\ num_threads = 0 /\ idle_semaphore = 0
    /\ releasing = 0 /\ yielded = {} /\ clock = 0

DiscoverIdle ==
    /\ interface = "auto" /\ interfaces = << >> /\ local_ip = None
    /\ netmask = None /\ lookup = NoLookup

CliIdle == args_subnet = None /\ cli_pc = "unused"

\* A caller invokes scan_network(subnet, timeout, max_workers).
InitScan ==
    /\ entry = "scan_network" /\ pc = "validate"
    /\ CliIdle
    /\ subnet \in Subnets /\ timeout \in Timeouts
    /\ max_workers \in WorkerLimits /\ platform \in Platforms
    /\ result = None /\ future_to_ip = << >>
    /\ future = [ip \in Addresses |-> "unsubmitted"]
    /\ check = [ip \in Addresses |-> "unresolved"]
    /\ elapsed = [ip \in Addresses |-> 0]
    /\ work_queue = << >> /\ num_threads = 0 /\ idle_semaphore = 0
    /\ releasing = 0 /\ yielded = {} /\ clock = 0
    /\ DiscoverIdle

\* A caller invokes discover_subnet(interface).
InitDiscover ==
    /\ entry = "discover_subnet" /\ pc = "check_interface"
    /\ interface \in {NoInterface, "auto"} /\ interfaces = << >>
    /\ local_ip = None /\ netmask = None /\ lookup = NoLookup
    /\ ScanIdle
    /\ CliIdle

\* Values of --subnet, parsed: a /31 and a /30 inside the scanned window and
\* an oversize /16.
OverrideSubnets ==
    { [addr |-> BaseAddr, prefixlen |-> p] : p \in {16, 30, 31} }

\* The command line runs "scan", with or without --subnet: cmd_scan starts
\* with discover_subnet() (line 16), interface left at its default.
InitCli ==
    /\ entry = "cmd_scan" /\ pc = "check_interface"
    /\ cli_pc = "discover"
    /\ args_subnet \in {None} \cup OverrideSubnets
    /\ DiscoverIdle
    /\ subnet = None /\ timeout = 0 /\ max_workers = 0
    /\ platform \in Platforms
    /\ result = None /\ future_to_ip = << >>
    /\ future = [ip \in Addresses |-> "unsubmitted"]
    /\ check = [ip \in Addresses |-> "unresolved"]
    /\ elapsed = [ip \in Addresses |-> 0]
    /\ work_queue = << >> /\ num_threads = 0 /\ idle_semaphore = 0
    /\ releasing = 0 /\ yielded = {} /\ clock = 0

Init ==
    /\ error = None /\ returned = None
    /\ (InitScan \/ InitDiscover \/ InitCli)

\* ----------------------------------------------------------- scan_network
\* Lines 198-202: the size policy.
Validate ==
    /\ pc = "validate"
    /\ IF Unsupported(subnet)
       THEN /\ pc' = "raised"
            /\ error' = NetworkError("unsupported-subnet",
                 << "Only /22 or smaller subnets are supported, got /",
                    subnet.prefixlen >>)
       ELSE /\ pc' = "create_result"
            /\ UNCHANGED error
    /\ UNCHANGED << entry, cliVars, returned, scanVars, discoverVars >>

\* Line 204: result = ScanResult(subnet=subnet).
CreateResult ==
    /\ pc = "create_result"
    /\ result' = [subnet |-> subnet, hosts_scanned |-> << >>,
                  alive |-> << >>, dead |-> << >>]
    /\ pc' = "enumerate"
    /\ UNCHANGED << entry, cliVars, error, returned, subnet, timeout, max_workers,
                    platform, future_to_ip, future, check, elapsed,
                    work_queue, num_threads, idle_semaphore, releasing,
                    yielded, clock, discoverVars >>

\* Lines 205-206: result.hosts_scanned = list(subnet.hosts()).
Enumerate ==
    /\ pc = "enumerate"
    /\ result' = [result EXCEPT !.hosts_scanned = Hosts(subnet)]
    /\ pc' = "submit"
    /\ UNCHANGED << entry, cliVars, error, returned, subnet, timeout, max_workers,
                    platform, future_to_ip, future, check, elapsed,
                    work_queue, num_threads, idle_semaphore, releasing,
                    yielded, clock, discoverVars >>

\* The hosts the dict comprehension of line 209 has still to submit.
Unsubmitted(hosts, submitted) == SubSeq(hosts, Len(submitted) + 1, Len(hosts))

\* Line 209, executor.submit: a new pending Future is queued.  With every
\* host submitted the comprehension ends and the as_completed loop starts.
Submit ==
    /\ pc = "submit"
    /\ LET todo == Unsubmitted(result.hosts_scanned, future_to_ip)
       IN  IF todo = << >>
           THEN /\ pc' = "as_completed"
                /\ UNCHANGED << future_to_ip, future, work_queue >>
           ELSE /\ future_to_ip' = Append(future_to_ip, Head(todo))
                /\ future' = [future EXCEPT ![Head(todo)] = "PENDING"]
                /\ work_queue' = Append(work_queue, Head(todo))
                /\ pc' = "adjust_thread_count"
    /\ UNCHANGED << entry, cliVars, error, returned, subnet, timeout, max_workers,
                    platform, result, check, elapsed, num_threads,
                    idle_semaphore, releasing, yielded, clock,
                    discoverVars >>

\* executor.submit, _adjust_thread_count: an idle worker is claimed, else a
\* thread is started while the pool is below its limit.
AdjustThreadCount ==
    /\ pc = "adjust_thread_count"
    /\ IF idle_semaphore > 0
       THEN /\ idle_semaphore' = idle_semaphore - 1
            /\ UNCHANGED num_threads
       ELSE /\ num_threads' =
                 IF num_threads < PoolSize(max_workers, result.hosts_scanned)
                 THEN num_threads + 1 ELSE num_threads
            /\ UNCHANGED idle_semaphore
    /\ pc' = "submit"
    /\ UNCHANGED << entry, cliVars, error, returned, subnet, timeout, max_workers,
                    platform, result, future_to_ip, future, check, elapsed,
                    work_queue, releasing, yielded, clock, discoverVars >>

\* Worker threads with no work item in hand.
IdleWorkers == num_threads - Cardinality(Running) - releasing

\* A worker takes the oldest work item and starts its probe.
StartProbe ==
    /\ work_queue # << >>
    /\ IdleWorkers > 0
    /\ future' = [future EXCEPT ![Head(work_queue)] = "RUNNING"]
    /\ elapsed' = [elapsed EXCEPT ![Head(work_queue)] = 0]
    /\ work_queue' = Tail(work_queue)
    /\ UNCHANGED << entry, cliVars, pc, error, returned, subnet, timeout, max_workers,
                    platform, result, future_to_ip, check, num_threads,
                    idle_semaphore, releasing, yielded, clock,
                    discoverVars >>

\* When the check of a probe that has waited e ticks can end as outcome:
\* a launch failure ends it at once, TimeoutExpired is raised at the hard
\* deadline and not before.
CanEnd(outcome, e, t) ==
    CASE outcome = "launch_failure" -> e = 0
      [] outcome = "TimeoutExpired" -> e = HardDeadline(t)
      [] OTHER                      -> e <= HardDeadline(t)

\* FinishProbe with the worker itself filing the host in the shared
\* ScanResult, besides storing the outcome in the Future.
FinishProbeFilesHost(ip, outcome) ==
    /\ future[ip] = "RUNNING"
    /\ CanEnd(outcome, elapsed[ip], timeout)
    /\ check' = [check EXCEPT ![ip] = outcome]
    /\ future' = [future EXCEPT ![ip] = PingHost(outcome)]
    /\ elapsed' = [elapsed EXCEPT ![ip] = 0]
    /\ releasing' = releasing + 1
    /\ result' = IF PingHost(outcome) = "True"
                 THEN [result EXCEPT !.alive = Append(@, ip)]
                 ELSE [result EXCEPT !.dead = Append(@, ip)]
    /\ UNCHANGED << entry, cliVars, pc, error, returned, subnet, timeout,
                    max_workers, platform, future_to_ip, work_queue,
                    num_threads, idle_semaphore, yielded, clock,
                    discoverVars >>

\* Lines 159-177 in a worker: the probe of ip resolves and the worker
\* stores its outcome in the Future.
FinishProbe(ip, outcome) ==
    /\ future[ip] = "RUNNING"
    /\ CanEnd(outcome, elapsed[ip], timeout)
    /\ check' = [check EXCEPT ![ip] = outcome]
    /\ future' = [future EXCEPT ![ip] = PingHost(outcome)]
    /\ elapsed' = [elapsed EXCEPT ![ip] = 0]
    /\ releasing' = releasing + 1
    /\ UNCHANGED << entry, cliVars, pc, error, returned, subnet, timeout, max_workers,
                    platform, result, future_to_ip, work_queue, num_threads,
                    idle_semaphore, yielded, clock, discoverVars >>

\* The worker, done with its work item, releases the idle semaphore.
ReleaseIdle ==
    /\ releasing > 0
    /\ releasing' = releasing - 1
    /\ idle_semaphore' = idle_semaphore + 1
    /\ UNCHANGED << entry, cliVars, pc, error, returned, subnet, timeout, max_workers,
                    platform, result, future_to_ip, future, check, elapsed,
                    work_queue, num_threads, yielded, clock, discoverVars >>

\* Futures that are resolved and that as_completed has not yet yielded.
Ready == { ip \in Range(future_to_ip) \ yielded : Finished(ip) }

\* Half a second passes.  Only waiting takes time: the caller is blocked in
\* as_completed with nothing to yield, every worker that could take work
\* has taken it, and no running check is past its hard deadline.
Tick ==
    /\ pc = "as_completed"
    /\ Ready = {}
    /\ releasing = 0
    /\ ~ (work_queue # << >> /\ IdleWorkers > 0)
    /\ Running # {}
    /\ \A ip \in Running : elapsed[ip] < HardDeadline(timeout)
    /\ elapsed' = [ip \in Addresses |->
                     IF ip \in Running THEN elapsed[ip] + 1 ELSE elapsed[ip]]
    /\ clock' = clock + 1
    /\ UNCHANGED << entry, cliVars, pc, error, returned, subnet, timeout, max_workers,
                    platform, result, future_to_ip, future, check,
                    work_queue, num_threads, idle_semaphore, releasing,
                    yielded, discoverVars >>

\* Aggregated with the else of line 216 lost: an alive host is also
\* appended to dead.
AggregatedNoElse(res, ip, where) ==
    CASE where = "alive" -> [res EXCEPT !.alive = Append(@, ip),
                                        !.dead = Append(@, ip)]
      [] where = "dead"  -> [res EXCEPT !.dead = Append(@, ip)]
      [] OTHER           -> res

\* Aggregated with the append to dead of line 217 followed by the one of
\* line 219: a dead host is listed twice.
AggregatedTwice(res, ip, where) ==
    CASE where = "alive" -> [res EXCEPT !.alive = Append(@, ip)]
      [] where = "dead"  -> [res EXCEPT !.dead = Append(Append(@, ip), ip)]
      [] OTHER           -> res

\* result after the loop body of lines 212-219 ran for a host.
Aggregated(res, ip, where) ==
    CASE where = "alive" -> [res EXCEPT !.alive = Append(@, ip)]
      [] where = "dead"  -> [res EXCEPT !.dead = Append(@, ip)]
      [] OTHER           -> res

\* Lines 211-219: as_completed yields a resolved future and the loop body
\* files its host under alive or dead.
Aggregate(ip) ==
    /\ pc = "as_completed"
    /\ ip \in Ready
    /\ yielded' = yielded \cup {ip}
    /\ result' = Aggregated(result, ip, Classify(future[ip]))
    /\ UNCHANGED << entry, cliVars, pc, error, returned, subnet, timeout, max_workers,
                    platform, future_to_ip, future, check, elapsed,
                    work_queue, num_threads, idle_semaphore, releasing,
                    clock, discoverVars >>

\* Exhausted as soon as one future has been yielded.
ExhaustedAfterFirst(submitted, done) == submitted = << >> \/ done # {}

\* as_completed is exhausted: every submitted future has been yielded.
Exhausted(submitted, done) == Range(submitted) = done

\* Line 211: the loop ends.
LoopEnd ==
    /\ pc = "as_completed"
    /\ Exhausted(future_to_ip, yielded)
    /\ pc' = "shutdown"
    /\ UNCHANGED << entry, cliVars, error, returned, scanVars, discoverVars >>

\* Line 208, leaving the with block: executor.shutdown(wait=True) joins the
\* workers, which exit once the queue is drained.
Shutdown ==
    /\ pc = "shutdown"
    /\ work_queue = << >> /\ Running = {} /\ releasing = 0
    /\ num_threads' = 0
    /\ pc' = "return"
    /\ UNCHANGED << entry, cliVars, error, returned, subnet, timeout, max_workers,
                    platform, result, future_to_ip, future, check, elapsed,
                    work_queue, idle_semaphore, releasing, yielded, clock,
                    discoverVars >>

\* Line 221: return result.
Return ==
    /\ pc = "return"
    /\ returned' = result
    /\ pc' = "returned"
    /\ UNCHANGED << entry, cliVars, error, scanVars, discoverVars >>

\* -------------------------------------------------------- discover_subnet
\* Which of the four checks of discover_subnet fails, if any: lines 129,
\* 133, 137 and 141, in that order.
DiscoverFailure(iface, ifaces, ip, mask) ==
    CASE iface = NoInterface -> "No active network interface found"
      [] ifaces = << >> -> "No active network interface found"
      [] ip = None      -> "Could not determine local IP address"
      [] mask = None    -> "Could not determine network mask"
      [] OTHER          -> "no failure"

\* Lines 129-130: interface None stands for no interface.
CheckInterface ==
    /\ pc = "check_interface"
    /\ IF interface = NoInterface
       THEN /\ pc' = "raised"
            /\ error' = NetworkError("no-interface",
                          DiscoverFailure(interface, interfaces,
                                          local_ip, netmask))
       ELSE /\ pc' = "get_interfaces"
            /\ UNCHANGED error
    /\ UNCHANGED << entry, cliVars, returned, scanVars, discoverVars >>

\* Lines 132-134: interfaces = get_interfaces().
ListInterfaces(env) ==
    /\ pc = "get_interfaces"
    /\ interfaces' = GetInterfaces(env)
    /\ lookup' = [lookup EXCEPT !.route = env]
    /\ IF GetInterfaces(env) = << >>
       THEN /\ pc' = "raised"
            /\ error' = NetworkError("no-interface",
                          DiscoverFailure(interface, GetInterfaces(env),
                                          local_ip, netmask))
       ELSE /\ pc' = "get_local_ip"
            /\ UNCHANGED error
    /\ UNCHANGED << entry, cliVars, returned, scanVars, interface, local_ip, netmask >>

\* Lines 136-138: local_ip = _get_local_ip(), None when the socket fails.
ResolveLocalIp(ip) ==
    /\ pc = "get_local_ip"
    /\ local_ip' = ip
    /\ IF ip = None
       THEN /\ pc' = "raised"
            /\ error' = NetworkError("no-interface",
                          DiscoverFailure(interface, interfaces, ip, netmask))
       ELSE /\ pc' = "get_netmask"
            /\ UNCHANGED error
    /\ UNCHANGED << entry, cliVars, returned, scanVars, interface, interfaces,
                    netmask, lookup >>

\* Lines 140-142: netmask = _get_netmask().
ResolveNetmask(env) ==
    /\ pc = "get_netmask"
    /\ netmask' = GetNetmask(env)
    /\ lookup' = [lookup EXCEPT !.ifconfig = env.kind]
    /\ IF GetNetmask(env) = None
       THEN /\ pc' = "raised"
            /\ error' = NetworkError("no-interface",
                          DiscoverFailure(interface, interfaces, local_ip,
                                          GetNetmask(env)))
       ELSE /\ pc' = "build_network"
            /\ UNCHANGED error
    /\ UNCHANGED << entry, cliVars, returned, scanVars, interface, interfaces,
                    local_ip >>

\* Lines 145-146: the network of the local IP under the netmask.
BuildNetwork ==
    /\ pc = "build_network"
    /\ returned' = MakeNetwork(local_ip, netmask)
    /\ pc' = "returned"
    /\ UNCHANGED << entry, cliVars, error, scanVars, discoverVars >>

\* ----------------------------------------------------------------- cmd_scan
\* cli.py lines 16-26: the subnet cmd_scan checks against the size policy
\* and hands to scan_network is the one discover_subnet() returned;
\* args.subnet is not read.
CliSubnet(override, discovered) == discovered

\* cli.py line 19
CliOversize(s) == s.prefixlen < CliMinPrefixLen

\* cli.py lines 16-26: discover_subnet() has returned.  An oversize subnet
\* ends the command with exit code 1, without a scan; otherwise
\* scan_network(subnet) is called with its default timeout and limit.  The
\* scan is followed only for subnets of the modelled sizes.
CmdScanDiscovered ==
    /\ entry = "cmd_scan" /\ cli_pc = "discover" /\ pc = "returned"
    /\ LET s == CliSubnet(args_subnet, returned)
       IN  IF CliOversize(s)
           THEN /\ cli_pc' = "return 1"
                /\ UNCHANGED << pc, returned, subnet, timeout, max_workers >>
           ELSE /\ s \in ScannableSubnets
                /\ subnet' = s
                /\ timeout' = DefaultTimeout
                /\ max_workers' = DefaultMaxWorkers
                /\ returned' = None
                /\ pc' = "validate"
                /\ cli_pc' = "scan"
    /\ UNCHANGED << entry, error, args_subnet, platform, result,
                    future_to_ip, future, check, elapsed, work_queue,
                    num_threads, idle_semaphore, releasing, yielded, clock,
                    discoverVars >>

\* cli.py lines 28-33: scan_network has returned; the report is printed
\* and the command ends with exit code 0.
CmdScanReport ==
    /\ entry = "cmd_scan" /\ cli_pc = "scan" /\ pc = "returned"
    /\ cli_pc' = "return 0"
    /\ UNCHANGED << entry, pc, error, returned, args_subnet, scanVars,
                    discoverVars >>

\* cli.py lines 35-37: a NetworkError ends the command with exit code 1.
CmdScanError ==
    /\ entry = "cmd_scan" /\ cli_pc \in {"discover", "scan"}
    /\ pc = "raised"
    /\ cli_pc' = "return 1"
    /\ UNCHANGED << entry, pc, error, returned, args_subnet, scanVars,
                    discoverVars >>

\* ------------------------------------------------------------------- Next
Next ==
    \/ Validate
    \/ CreateResult
    \/ Enumerate
    \/ Submit
    \/ AdjustThreadCount
    \/ StartProbe
    \/ \E ip \in Addresses, outcome \in CheckOutcomes : FinishProbe(ip, outcome)
    \/ ReleaseIdle
    \/ Tick
    \/ \E ip \in Addresses : Aggregate(ip)
    \/ LoopEnd
    \/ Shutdown
    \/ Return
    \/ CheckInterface
    \/ \E env \in RouteOutcomes : ListInterfaces(env)
    \/ \E ip \in LocalIPs \cup {None} : ResolveLocalIp(ip)
    \/ \E env \in NetmaskOutcomes : ResolveNetmask(env)
    \/ BuildNetwork
    \/ CmdScanDiscovered
    \/ CmdScanReport
    \/ CmdScanError

Spec == Init /\ [][Next]_vars

\* The scheduler keeps running every thread that can take a step, and time
\* passes while all of them wait.
FairSpec == Spec /\ WF_vars(Next)

\* ================================================================ claims
ScanReturned == entry = "scan_network" /\ pc = "returned"

\* The addresses of a subnet other than its network and broadcast address.
UsableAddresses(s) ==
    (s.addr..BroadcastAddress(s)) \ {s.addr, BroadcastAddress(s)}

\* C1: the ScanResult scan_network returns files every scanned host under
\* exactly one of alive and dead, exactly once: alive and dead together are
\* the scanned hosts, they share no host, and neither lists a host twice.
C1_AlivePlusDeadIsScanned ==
    ScanReturned =>
        /\ Range(returned.alive) \cup Range(returned.dead)
             = Range(returned.hosts_scanned)
        /\ Range(returned.alive) \cap Range(returned.dead) = {}
        /\ Len(returned.alive) + Len(returned.dead)
             = Len(returned.hosts_scanned)
        /\ NoDuplicates(returned.alive) /\ NoDuplicates(returned.dead)

\* A scan of two hosts returned with one host alive and one dead.
C1_Witness ==
    /\ ScanReturned
    /\ Len(returned.alive) = 1 /\ Len(returned.dead) = 1

\* C2 (as claimed): for every prefix length from 22 through 32 the scanned
\* hosts are the addresses of the subnet without its network and broadcast
\* address, none listed twice.
C2_HostsExcludeNetworkAndBroadcast ==
    ScanReturned =>
        /\ Range(returned.hosts_scanned) = UsableAddresses(subnet)
        /\ NoDuplicates(returned.hosts_scanned)

\* C3: a host is in alive exactly when its own probe returned true, and in
\* dead otherwise, whatever the other probes did and whenever they
\* completed; this holds after every loop iteration and of the result.
C3_ClassifiedByOwnProbe ==
    (entry = "scan_network" /\ result # None) =>
        /\ \A ip \in yielded :
             /\ ip \in Range(result.alive) <=> future[ip] = "True"
             /\ ip \in Range(result.dead) <=> future[ip] # "True"
        /\ \A ip \in Range(result.hosts_scanned) \ yielded :
             ip \notin Range(result.alive) \cup Range(result.dead)
        /\ pc = "returned" => yielded = Range(result.hosts_scanned)

\* A returned scan whose second host completed and was filed first, alive,
\* while the first host is dead.
C3_Witness ==
    /\ ScanReturned
    /\ Len(returned.hosts_scanned) = 2
    /\ returned.alive = << returned.hosts_scanned[2] >>
    /\ returned.dead = << returned.hosts_scanned[1] >>
    /\ check[returned.hosts_scanned[1]] = "exit_nonzero"

\* C4: for a prefix length below 22 scan_network raises a NetworkError with
\* code unsupported-subnet that carries the prefix length of its argument;
\* it creates and returns no ScanResult and dispatches no probe.
C4_OversizeSubnetRejected ==
    (entry = "scan_network" /\ subnet.prefixlen < 22) =>
        /\ pc \in {"validate", "raised"}
        /\ result = None /\ returned = None /\ future_to_ip = << >>
        /\ pc = "raised" =>
             /\ error.code = "unsupported-subnet"
             /\ error.message[2] = subnet.prefixlen

\* scan_network of a /21 has raised.
C4_Witness ==
    /\ entry = "scan_network" /\ pc = "raised"
    /\ subnet.prefixlen = 21
    /\ error.code = "unsupported-subnet"

\* C5: scan_network is a barrier: the caller leaves the as_completed loop,
\* and so returns, only when every dispatched probe has resolved; no probe
\* is queued or running from then on.
C5_ReturnsAfterAllProbesResolve ==
    (entry = "scan_network" /\ pc \in {"shutdown", "return", "returned"}) =>
        /\ \A ip \in Range(result.hosts_scanned) : Finished(ip)
        /\ Range(future_to_ip) = Range(result.hosts_scanned)
        /\ work_queue = << >> /\ Running = {}

\* A scan of two hosts returned, its probes having run one after the other.
C5_Witness ==
    /\ ScanReturned
    /\ Len(returned.hosts_scanned) = 2
    /\ max_workers = 1
    /\ clock > 0

\* C6: at every moment at most max_workers probes are running (and at most
\* max_workers worker threads exist), and the probes submitted are the
\* scanned hosts, one probe per host.
C6_BoundedConcurrency ==
    entry = "scan_network" =>
        /\ Cardinality(Running) <= max_workers
        /\ num_threads <= max_workers
        /\ NoDuplicates(future_to_ip)
        /\ pc \in {"as_completed", "shutdown", "return", "returned"} =>
             future_to_ip = result.hosts_scanned

\* With a limit of one, a probe runs while the other host waits in the queue.
C6_Witness ==
    /\ entry = "scan_network" /\ max_workers = 1
    /\ Cardinality(Running) = 1
    /\ Len(work_queue) = 1

ProbeErrors == {"TimeoutExpired", "launch_failure", "task_raised"}

\* C7: a probe that times out, fails to launch its check or raises is filed
\* under dead, never under alive; it never aborts the scan: a scan of a
\* supported subnet raises no error, and when it returns every host has
\* been classified.
C7_ProbeErrorsAreDead ==
    (entry = "scan_network" /\ ~ (subnet.prefixlen < 22)) =>
        /\ pc # "raised" /\ error = None
        /\ result # None =>
             \A ip \in yielded :
                check[ip] \in ProbeErrors =>
                   /\ ip \in Range(result.dead)
                   /\ ip \notin Range(result.alive)
        /\ pc = "returned" =>
             /\ yielded = Range(returned.hosts_scanned)
             /\ returned = result

\* A scan returned in which the first probe raised and the host of the
\* second, probed after it, is alive.
C7_Witness ==
    /\ ScanReturned
    /\ Len(returned.hosts_scanned) = 2
    /\ check[returned.hosts_scanned[1]] = "task_raised"
    /\ returned.dead = << returned.hosts_scanned[1] >>
    /\ returned.alive = << returned.hosts_scanned[2] >>

\* The ascending sequence of the members of a set of addresses.
RECURSIVE Ascending(_)
Ascending(S) ==
    IF S = {} THEN << >>
    ELSE LET lo == CHOOSE x \in S : \A y \in S : x <= y
         IN  << lo >> \o Ascending(S \ {lo})

\* The report of a scan as its subnet and the outcomes of its probes alone
\* fix it: counts of the hosts probed true and not, and the hosts probed
\* true in ascending order.
ExpectedReport(s, hosts) ==
    LET up == { ip \in hosts : future[ip] = "True" }
    IN  [subnet  |-> << FormatIP(s.addr), s.prefixlen >>,
         scanned |-> Cardinality(hosts),
         alive   |-> Cardinality(up),
         dead    |-> Cardinality(hosts \ up),
         hosts   |-> [i \in 1..Cardinality(up) |-> FormatIP(Ascending(up)[i])]]

\* C8: report() of a returned scan lists the alive hosts in strictly
\* ascending numeric order, and the whole report is fixed by the subnet and
\* the per-host probe outcomes: the order in which probes completed and
\* were filed does not show in it.
C8_ReportIsSortedAndOrderFree ==
    ScanReturned =>
        /\ \A i, j \in 1..Len(Report(returned).hosts) :
             i < j => ParseIP(Report(returned).hosts[i])
                        < ParseIP(Report(returned).hosts[j])
        /\ Report(returned) = ExpectedReport(subnet, Range(future_to_ip))

\* A returned scan with both hosts alive, the higher address filed first.
C8_Witness ==
    /\ ScanReturned
    /\ Len(returned.alive) = 2
    /\ returned.alive[1] > returned.alive[2]

NetmaskUnresolvable == lookup.ifconfig \in {"ifconfig_failed", "not_listed"}

\* C9 (as claimed): discover_subnet returns no subnet when no active
\* interface is found, when the local IP cannot be resolved or when the
\* netmask cannot be resolved; each of these ends in a NetworkError with
\* code no-interface.
C9_NoSubnetWithoutInterfaceIpOrNetmask ==
    (entry = "discover_subnet" /\ pc \in {"returned", "raised"}) =>
        /\ (interface = NoInterface \/ interfaces = << >>
              \/ local_ip = None \/ NetmaskUnresolvable
              \/ lookup.ifconfig = "no_local_ip")
             => /\ pc = "raised"
                /\ returned = None
                /\ error.code = "no-interface"

\* C9 (amended): discover_subnet raises no-interface, and returns nothing,
\* exactly when the interface argument is None, no active interface is
\* listed, the local IP lookup fails, or the local IP lookup repeated
\* inside the netmask lookup fails.  When the netmask itself cannot be
\* read (the utility fails, or lists no netmask for the local IP) it does
\* not fail: it goes on with 255.255.255.0 and returns the /24 network of
\* the local IP.
C9_NoInterfaceOnlyWithoutInterfaceOrIp ==
    (entry = "discover_subnet" /\ pc \in {"returned", "raised"}) =>
        /\ pc = "raised" <=>
             (interface = NoInterface \/ interfaces = << >>
                \/ local_ip = None \/ lookup.ifconfig = "no_local_ip")
        /\ pc = "raised" =>
             /\ error.code = "no-interface" /\ returned = None
        /\ pc = "returned" =>
             /\ error = None
             /\ returned.addr = ParseIP(local_ip)
                                  - (ParseIP(local_ip)
                                       % Pow2(32 - returned.prefixlen))
        /\ (pc = "returned" /\ NetmaskUnresolvable) =>
             /\ netmask = << 255, 255, 255, 0 >>
             /\ returned.prefixlen = 24

\* discover_subnet returned a /24 although the utility listed no netmask.
C9_Witness ==
    /\ entry = "discover_subnet" /\ pc = "returned"
    /\ lookup.ifconfig = "not_listed"
    /\ returned = [addr |-> ParseIP(<< 10, 0, 3, 0 >>), prefixlen |-> 24]

\* ceil(n / w)
CeilDiv(n, w) == (n + w - 1) \div w

\* C10, the safety half: the hard deadline is strictly longer than the
\* timeout budget of the check; no probe runs past it; a probe ended by the
\* hard deadline resolves false and is filed under dead; and a scan returns
\* within ceil(hosts / max_workers) rounds of timeout + grace.
C10_DeadlineBounds ==
    (entry = "scan_network" /\ ~ (subnet.prefixlen < 22)) =>
        /\ timeout + Grace > CheckBudget(platform, timeout)
        /\ \A ip \in Running : elapsed[ip] <= timeout + Grace
        /\ \A ip \in Range(future_to_ip) :
             check[ip] = "TimeoutExpired" =>
                /\ future[ip] = "False"
                /\ ip \in yielded => ip \in Range(result.dead)
        /\ pc = "returned" =>
             clock <= CeilDiv(Len(returned.hosts_scanned), max_workers)
                        * (timeout + Grace)

\* C10: under fair scheduling every dispatched probe eventually resolves,
\* also one whose check never exits by itself, and scan_network of a
\* supported subnet eventually returns; throughout, the deadline bounds
\* of C10_DeadlineBounds hold.
C10_EveryProbeResolvesAndScanReturns ==
    /\ [] C10_DeadlineBounds
    /\ \A ip \in Addresses :
         (future[ip] \in {"PENDING", "RUNNING"}) ~> Finished(ip)
    /\ (entry = "scan_network" /\ ~ (subnet.prefixlen < 22))
         ~> (pc = "returned")

\* A scan with a limit of one returned after both its probes hung until the
\* hard deadline: two full rounds.
C10_Witness ==
    /\ ScanReturned
    /\ max_workers = 1
    /\ Len(returned.hosts_scanned) = 2
    /\ \A ip \in Range(returned.hosts_scanned) : check[ip] = "TimeoutExpired"
    /\ returned.alive = << >>
    /\ clock = 2 * (timeout + Grace)

\* The subnet discover_subnet() returned to cmd_scan.
Discovered == MakeNetwork(local_ip, netmask)

\* C11 (as claimed): the scan subcommand honours --subnet: with --subnet
\* given, the subnet checked against the size policy and scanned is the
\* given one; the discovered subnet is used only without --subnet.
C11_OverrideIsScanned ==
    (entry = "cmd_scan" /\ cli_pc \in {"scan", "return 0"}) =>
        subnet = IF args_subnet # None THEN args_subnet ELSE Discovered

\* A ScanResult exists: scan_network is past line 204.
ResultExists == result # None

\* C12 (as claimed): from its creation to its return the ScanResult has
\* scanned = alive + dead, alive and dead disjoint, and no address twice
\* in any of its three lists.
C12_ResultInvariantAlways ==
    ResultExists =>
        /\ Range(result.hosts_scanned)
             = Range(result.alive) \cup Range(result.dead)
        /\ Range(result.alive) \cap Range(result.dead) = {}
        /\ NoDuplicates(result.hosts_scanned)
        /\ NoDuplicates(result.alive) /\ NoDuplicates(result.dead)

\* C12 (amended): in every state of a scan alive and dead are disjoint, no
\* address is twice in any of the three lists, and alive + dead are
\* scanned hosts: exactly the hosts of the probes the loop has handled so
\* far.  scanned = alive + dead holds of the result as created (all three
\* empty) and again from the end of the loop on, so of the result returned,
\* but not in between: hosts_scanned is filled in full before any probe is
\* submitted.
C12_ResultInvariantAtEnds ==
    ResultExists =>
        /\ Range(result.alive) \cup Range(result.dead) = yielded
        /\ yielded \subseteq Range(result.hosts_scanned)
        /\ Range(result.alive) \cap Range(result.dead) = {}
        /\ NoDuplicates(result.hosts_scanned)
        /\ NoDuplicates(result.alive) /\ NoDuplicates(result.dead)
        /\ pc \in {"enumerate", "shutdown", "return", "returned"} =>
             Range(result.hosts_scanned)
               = Range(result.alive) \cup Range(result.dead)
        /\ pc = "enumerate" => result.hosts_scanned = << >>
        /\ pc = "returned" => returned = result

\* In the loop, one host of two is dead and filed, the probe of the other
\* is still running.
C12_Witness ==
    /\ entry = "scan_network" /\ pc = "as_completed"
    /\ Len(result.hosts_scanned) = 2
    /\ Len(result.dead) = 1 /\ result.alive = << >>
    /\ Cardinality(Running) = 1

\* A step of a worker thread: a work item is taken, a Future is resolved or
\* the idle semaphore released.
WorkerStep ==
    \/ Len(work_queue') < Len(work_queue)
    \/ releasing' # releasing
    \/ check' # check

\* C13: the ScanResult is written by the thread that called scan_network
\* only: no step of a worker changes it.  Once enumerated, it changes only
\* by the loop filing one resolved, not yet handled probe: that host, and
\* nothing else, is appended to exactly one of alive and dead, alive if its
\* probe returned true and dead if not; nothing filed before is dropped or
\* moved.
C13_OnlyCallerFilesOneAtATime ==
    [][ (ResultExists /\ result' # result) =>
          /\ ~ WorkerStep
          /\ \/ pc = "enumerate"
             \/ /\ pc = "as_completed"
                /\ \E ip \in Ready :
                     /\ yielded' = yielded \cup {ip}
                     /\ result'.hosts_scanned = result.hosts_scanned
                     /\ IF future[ip] = "True"
                        THEN /\ result'.alive = Append(result.alive, ip)
                             /\ result'.dead = result.dead
                        ELSE /\ result'.dead = Append(result.dead, ip)
                             /\ result'.alive = result.alive ]_vars

\* Both probes of a scan have resolved and wait to be filed, their workers
\* not yet back in the pool.
C13_Witness ==
    /\ ResultExists /\ pc = "as_completed"
    /\ Cardinality(Ready) = 2
    /\ releasing = 2
    /\ yielded = {}

====
